---- MODULE Spec2Model ----
(***************************************************************************)
(* Path matching over a template tree (package cft): Template.GetPath,     *)
(* Template.MatchPath, matchPath and filter.                               *)
(*                                                                         *)
(* Strings are sequences of one-character strings, so that strings.Split   *)
(* and strconv.Atoi are computed character by character.  A node of the    *)
(* tree is addressed by its position: the sequence of (1-based) indices    *)
(* into Content that leads to it from the template's root.  A position     *)
(* plays the role of the *yaml.Node pointer of the source.                 *)
(***************************************************************************)
EXTENDS Integers, Sequences, FiniteSets, TLC

VARIABLES
    tmpl,      \* the Template's node tree (never modified)
    path,      \* the path string handed to MatchPath
    run,       \* what the goroutine MatchPath started does: its sends, and how it ends
    caller,    \* "none", "GetPath" or "MatchPath": who receives from the channel
    ppc,       \* the producer goroutine: "idle", "run", "send", "done", "panic"
    sent,      \* number of sends the producer has completed
    closed,    \* number of times close(ch) has run
    cpc,       \* the consumer: "idle", "recv", "stopped", "drained", "returned", "crashed"
    results,   \* the nodes the consumer has received, in order
    ret,       \* GetPath's return value: <<>> is nil, <<p>> is the node at p
    emitted    \* history: the sends completed, each with the call chain that led to it

vars == <<tmpl, path, run, caller, ppc, sent, closed, cpc, results, ret, emitted>>

---------------------------------------------------------------------------
(* Bounds of the model *)

MaxNodes == 3

MaxSegs == 2

---------------------------------------------------------------------------
(* Strings *)

Digits == <<"0", "1", "2", "3", "4", "5", "6", "7", "8", "9">>

IsDigit(c) == \E d \in 1..Len(Digits) : Digits[d] = c

DigitVal(c) == (CHOOSE d \in 1..Len(Digits) : Digits[d] = c) - 1

RECURSIVE Natural(_)
Natural(s) ==
    IF s = <<>> THEN 0
    ELSE 10 * Natural(SubSeq(s, 1, Len(s) - 1)) + DigitVal(s[Len(s)])

\* strconv.Atoi: an optional sign, then one or more decimal digits.
Atoi(s) ==
    LET signed == s # <<>> /\ s[1] \in {"+", "-"}
        body   == IF signed THEN Tail(s) ELSE s
    IN  IF body = <<>> \/ \E i \in 1..Len(body) : ~IsDigit(body[i])
        THEN [err |-> TRUE, val |-> 0]
        ELSE [err |-> FALSE,
              val |-> IF signed /\ s[1] = "-" THEN 0 - Natural(body) ELSE Natural(body)]

\* strings.Index, 1-based; 0 when sep does not occur in s.
IndexOf(s, sep) ==
    LET hits == {i \in 1..(Len(s) - Len(sep) + 1) : SubSeq(s, i, i + Len(sep) - 1) = sep}
    IN  IF hits = {} THEN 0 ELSE CHOOSE i \in hits : \A j \in hits : i <= j

\* strings.Split(s, sep) for a non-empty sep.
RECURSIVE Split(_, _)
Split(s, sep) ==
    LET i == IndexOf(s, sep)
    IN  IF i = 0 THEN <<s>>
        ELSE <<SubSeq(s, 1, i - 1)>> \o Split(SubSeq(s, i + Len(sep), Len(s)), sep)

---------------------------------------------------------------------------
(* The document model: yaml.Node as the matcher reads it (Kind, Value, Content) *)

\* A scalar holds its literal in Value and has no Content.
Scalar(v) == [kind |-> "Scalar", value |-> v, content |-> <<>>]

\* A mapping's Content is key1, value1, key2, value2, ...; its own Value is empty.
Mapping(c) == [kind |-> "Mapping", value |-> <<>>, content |-> c]

\* A sequence's Content is its elements; its own Value is empty.
Sequence(c) == [kind |-> "Sequence", value |-> <<>>, content |-> c]

\* The document node wraps the top-level node.
Document(c) == [kind |-> "Document", value |-> <<>>, content |-> c]

RECURSIVE NodeAt(_, _)
NodeAt(root, at) ==
    IF at = <<>> THEN root ELSE NodeAt(root.content[Head(at)], Tail(at))

\* The Content indices of a node's children that a traversal descends into:
\* the values of a mapping (Content[i+1] for i = 0, 2, ...), the elements of a sequence.
Children(n) ==
    IF n.kind = "Mapping" THEN [j \in 1..(Len(n.content) \div 2) |-> 2 * j]
    ELSE IF n.kind = "Sequence" THEN [j \in 1..Len(n.content) |-> j]
    ELSE <<>>

---------------------------------------------------------------------------
(* What a traversal does on the channel: the nodes it sends, in order, and  *)
(* whether it ends in a run-time panic (index out of range) instead of      *)
(* returning.                                                               *)

Nothing == [emits |-> <<>>, panic |-> FALSE]

Panicked == [emits |-> <<>>, panic |-> TRUE]

\* ch <- n, reached through the chain of calls via.
Emit(at, via) == [emits |-> <<[node |-> at, via |-> via]>>, panic |-> FALSE]

\* One statement after the other: a panic in the first ends the goroutine.
Then(a, b) ==
    IF a.panic THEN a ELSE [emits |-> a.emits \o b.emits, panic |-> b.panic]

\* The iterations of a loop, one after the other.
RECURSIVE InOrder(_)
InOrder(runs) ==
    IF Len(runs) = 0 THEN Nothing ELSE Then(Head(runs), InOrder(Tail(runs)))

\* A call site of matchPath inside matchPath, with the loop index it ran at.
Step(site, i) == [site |-> site, i |-> i]

Star == <<"*">>

StarStar == <<"*", "*">>

Bar == <<"|">>

EqEq == <<"=", "=">>

Slash == <<"/">>

---------------------------------------------------------------------------
(* filter *)

\* A variant of HasExpected: any split with at least two parts compares part 1.
HasExpectedAtLeastTwo(parts) == Len(parts) >= 2

\* len(parts) == 2: the clause carries a value to compare with.
HasExpected(parts) == Len(parts) = 2

\* One iteration of filter's loop: "pass" to go on to the next clause,
\* "fail" for return false, "panic" for an index out of range.
filterClause(n, q) ==
    LET parts == Split(q, EqEq)
        check(value) ==
            IF HasExpected(parts) /\ value.value # parts[2] THEN "fail" ELSE "pass"
    IN  IF n.kind = "Mapping" THEN
            LET hits == {j \in 1..(Len(n.content) \div 2) :
                            n.content[2 * j - 1].value = parts[1]}
            IN  IF hits = {} THEN "fail"
                ELSE check(n.content[2 * (CHOOSE j \in hits : \A k \in hits : j <= k)])
        ELSE IF n.kind = "Sequence" THEN
            LET a == Atoi(parts[1])
            IN  IF a.err \/ a.val >= Len(n.content) THEN "fail"
                ELSE IF a.val < 0 THEN "panic"
                ELSE check(n.content[a.val + 1])
        ELSE "fail"

filter(n, query) ==
    LET rs  == [i \in 1..Len(query) |-> filterClause(n, query[i])]
        bad == {i \in 1..Len(query) : rs[i] # "pass"}
    IN  IF bad = {} THEN "pass" ELSE rs[CHOOSE i \in bad : \A j \in bad : i <= j]

---------------------------------------------------------------------------
(* matchPath *)

\* A variant of ParseSegment: split at the first "|" only (strings.SplitN(head, "|", 2)).
ParseSegmentFirstBar(head) ==
    LET i == IndexOf(head, Bar)
    IN  IF i = 0 THEN [head |-> head, query |-> <<>>]
        ELSE [head |-> SubSeq(head, 1, i - 1), query |-> <<SubSeq(head, i + 1, Len(head))>>]

\* "Parse out any query": the segment is split only when it has exactly two parts.
ParseSegment(head) ==
    LET parts == Split(head, Bar)
    IN  IF Len(parts) = 2 THEN [head |-> parts[1], query |-> <<parts[2]>>]
        ELSE [head |-> head, query |-> <<>>]

\* A variant of RecursiveDescent: the children are visited before the node itself.
RecursiveDescentDeepFirst(zero, deeper) == Then(deeper, zero)

\* "Deal with recursive descent": the tail at this node, then the whole path at each child.
RecursiveDescent(zero, deeper) == Then(zero, deeper)

RECURSIVE matchPath(_, _, _, _)
matchPath(root, at, p, via) ==
    LET n    == NodeAt(root, at)
        kids == Children(n)
    IN  IF n.kind = "Document" THEN
            InOrder([i \in 1..Len(n.content) |->
                        matchPath(root, at \o <<i>>, p, via \o <<Step("doc", i)>>)])
        ELSE IF p = <<>> THEN Emit(at, via)
        ELSE
            LET head == Head(p)
                tail == Tail(p)
                descent ==
                    IF head = StarStar THEN
                        RecursiveDescent(
                            matchPath(root, at, tail, via \o <<Step("zero", 0)>>),
                            InOrder([j \in 1..Len(kids) |->
                                matchPath(root, at \o <<kids[j]>>, p,
                                          via \o <<Step("desc", j)>>)]))
                    ELSE Nothing
                seg == ParseSegment(head)
                visit(j) ==
                    LET f == filter(n.content[kids[j]], seg.query)
                    IN  IF f = "panic" THEN Panicked
                        ELSE IF f = "pass" THEN
                            matchPath(root, at \o <<kids[j]>>, tail,
                                      via \o <<Step("match", j)>>)
                        ELSE Nothing
                idx == Atoi(seg.head)
                \* the children the segment selects: a mapping's entries under "*" or
                \* under the key; a sequence's elements under "*" or at the index
                wanted(j) ==
                    IF n.kind = "Mapping"
                    THEN seg.head = Star \/ n.content[2 * j - 1].value = seg.head
                    ELSE seg.head = Star \/ (~idx.err /\ j = idx.val + 1)
                \* n.Content[i] with i < len(n.Content) and i negative
                outOfRange ==
                    /\ n.kind = "Sequence"
                    /\ seg.head # Star
                    /\ ~idx.err
                    /\ idx.val < 0
                step ==
                    IF outOfRange THEN Panicked
                    ELSE InOrder([j \in 1..Len(kids) |->
                                    IF wanted(j) THEN visit(j) ELSE Nothing])
            IN  Then(descent, step)

---------------------------------------------------------------------------
(* Template.MatchPath and Template.GetPath *)

\* A variant of ParsePath: an empty path string gives no segment at all.
ParsePathDropEmpty(p) == IF p = <<>> THEN <<>> ELSE Split(p, Slash)

\* strings.Split(path, "/")
ParsePath(p) == Split(p, Slash)

\* The traversal the producer goroutine runs: matchPath(ch, &t.Node, segments).
Traverse(t, p) == matchPath(t, <<>>, ParsePath(p), <<>>)

\* A variant of GetPathResult: the first match is returned whenever there is one.
GetPathResultFirst(rs) == IF Len(rs) = 0 THEN <<>> ELSE <<rs[1]>>

\* GetPath's result from the nodes it received: nil unless there is exactly one.
GetPathResult(rs) == IF Len(rs) # 1 THEN <<>> ELSE <<rs[1]>>

\* A variant of SendReady: a buffered channel takes the value with no receiver waiting.
SendReadyBuffered == TRUE

\* ch is unbuffered (make(chan *yaml.Node)): a send completes only with a receiver waiting.
SendReady == cpc = "recv"

\* GetPath(p): MatchPath(p) starts the goroutine, GetPath ranges over the channel.
GetPath(p) ==
    /\ caller = "none"
    /\ caller' = "GetPath"
    /\ path' = p
    /\ run' = Traverse(tmpl, p)
    /\ ppc' = "run"
    /\ cpc' = "recv"
    /\ UNCHANGED <<tmpl, sent, closed, results, ret, emitted>>

\* MatchPath(p) called directly: the caller receives from the channel itself.
MatchPath(p) ==
    /\ caller = "none"
    /\ caller' = "MatchPath"
    /\ path' = p
    /\ run' = Traverse(tmpl, p)
    /\ ppc' = "run"
    /\ cpc' = "recv"
    /\ UNCHANGED <<tmpl, sent, closed, results, ret, emitted>>

\* The traversal reaches its next ch <- n.
ProducerReachSend ==
    /\ ppc = "run"
    /\ sent < Len(run.emits)
    /\ ppc' = "send"
    /\ UNCHANGED <<tmpl, path, run, caller, sent, closed, cpc, results, ret, emitted>>

\* The send completes: the value goes to the receiver waiting on the channel.
ProducerSend ==
    /\ ppc = "send"
    /\ SendReady
    /\ sent' = sent + 1
    /\ emitted' = Append(emitted, run.emits[sent + 1])
    /\ results' = IF cpc = "recv" THEN Append(results, run.emits[sent + 1].node)
                  ELSE results
    /\ ppc' = "run"
    /\ UNCHANGED <<tmpl, path, run, caller, closed, cpc, ret>>

\* The traversal indexes Content out of range: the goroutine panics and the
\* program goes down with it.
ProducerPanic ==
    /\ ppc = "run"
    /\ sent = Len(run.emits)
    /\ run.panic
    /\ ppc' = "panic"
    /\ cpc' = "crashed"
    /\ UNCHANGED <<tmpl, path, run, caller, sent, closed, results, ret, emitted>>

\* matchPath has returned: close(ch).
ProducerClose ==
    /\ ppc = "run"
    /\ sent = Len(run.emits)
    /\ ~run.panic
    /\ closed' = closed + 1
    /\ ppc' = "done"
    /\ UNCHANGED <<tmpl, path, run, caller, sent, cpc, results, ret, emitted>>

\* GetPath's range loop ends on the closed channel and GetPath returns.
GetPathReturn ==
    /\ caller = "GetPath"
    /\ cpc = "recv"
    /\ closed > 0
    /\ ret' = GetPathResult(results)
    /\ cpc' = "returned"
    /\ UNCHANGED <<tmpl, path, run, caller, ppc, sent, closed, results, emitted>>

\* A direct caller's receive finds the channel closed.
ConsumerDrained ==
    /\ caller = "MatchPath"
    /\ cpc = "recv"
    /\ closed > 0
    /\ cpc' = "drained"
    /\ UNCHANGED <<tmpl, path, run, caller, ppc, sent, closed, results, ret, emitted>>

\* A direct caller stops receiving before the channel is closed.
ConsumerStop ==
    /\ caller = "MatchPath"
    /\ cpc = "recv"
    /\ closed = 0
    /\ cpc' = "stopped"
    /\ UNCHANGED <<tmpl, path, run, caller, ppc, sent, closed, results, ret, emitted>>

Steps ==
    \/ ProducerReachSend
    \/ ProducerSend
    \/ ProducerPanic
    \/ ProducerClose
    \/ GetPathReturn
    \/ ConsumerDrained
    \/ ConsumerStop

---------------------------------------------------------------------------
(* Inputs: every template of at most MaxNodes nodes over a set of keys and  *)
(* a set of scalar literals, and every path of at most MaxSegs segments     *)
(* over a set of segment strings.                                           *)

MappingsOf(K, f) ==
    {Mapping([i \in 1..(2 * Len(f)) |->
                IF i % 2 = 1 THEN Scalar(ks[(i + 1) \div 2]) ELSE f[i \div 2]]) :
        ks \in [1..Len(f) -> K]}

\* The forests (sequences of trees) of m nodes in all, from sized[j], the trees of j nodes.
RECURSIVE ForestsOfSize(_, _)
ForestsOfSize(sized, m) ==
    IF m = 0 THEN {<<>>}
    ELSE UNION {{<<t>> \o f : t \in sized[j], f \in ForestsOfSize(sized, m - j)} : j \in 1..m}

\* sized extended, one size at a time, up to the trees of n nodes.
RECURSIVE TreesUpTo(_, _, _, _)
TreesUpTo(K, V, sized, n) ==
    IF Len(sized) >= n THEN sized
    ELSE LET fs   == ForestsOfSize(sized, Len(sized))
             more == (IF Len(sized) = 0 THEN {Scalar(v) : v \in V} ELSE {})
                     \cup UNION {MappingsOf(K, f) \cup {Sequence(f)} : f \in fs}
         IN  TreesUpTo(K, V, Append(sized, more), n)

Templates(K, V) ==
    LET sized == TreesUpTo(K, V, <<>>, MaxNodes)
    IN  {Document(<<t>>) : t \in UNION {sized[n] : n \in 1..MaxNodes}}

RECURSIVE Join(_)
Join(segs) ==
    IF Len(segs) = 1 THEN segs[1] ELSE segs[1] \o Slash \o Join(Tail(segs))

Paths(S) == {Join(segs) : segs \in UNION {[1..n -> S] : n \in 1..MaxSegs}}

InitWith(T) ==
    /\ tmpl \in T
    /\ path = <<>>
    /\ run = Nothing
    /\ caller = "none"
    /\ ppc = "idle"
    /\ sent = 0
    /\ closed = 0
    /\ cpc = "idle"
    /\ results = <<>>
    /\ ret = <<>>
    /\ emitted = <<>>

NextWith(P) ==
    \/ \E p \in P : GetPath(p)
    \/ \E p \in P : MatchPath(p)
    \/ Steps

\* The general specification: keys k and "**", segments k, *, **, 0 and -1.
Keys == {<<"k">>, StarStar}

Literals == {<<"v">>}

Segments == {<<"k">>, Star, StarStar, <<"0">>, <<"-", "1">>}

Init == InitWith(Templates(Keys, Literals))

Next == NextWith(Paths(Segments))

Spec == Init /\ [][Next]_vars

\* Templates with an empty-string key, paths with empty segments.
EmptyKeys == {<<"k">>, <<>>}

EmptySegments == {<<>>, <<"k">>, <<"-", "1">>}

InitEmpty == InitWith(Templates(EmptyKeys, Literals))

NextEmpty == NextWith(Paths(EmptySegments))

SpecEmpty == InitEmpty /\ [][NextEmpty]_vars

\* Segments with one and with two "|", and a key spelled like the latter.
TwoBars == <<"*", "|", "k", "|", "v">>

BarKeys == {<<"k">>, TwoBars}

BarSegments == {TwoBars, <<"*", "|", "k">>, <<"*", "|", "-", "1">>}

InitBar == InitWith(Templates(BarKeys, Literals))

NextBar == NextWith(Paths(BarSegments))

SpecBar == InitBar /\ [][NextBar]_vars

\* Filter clauses with no, one and two "==".
EqV == <<"*", "|", "k", "=", "=", "v">>

EqNone == <<"*", "|", "k", "=", "=">>

EqVW == <<"*", "|", "k", "=", "=", "v", "=", "=", "w">>

EqKeys == {<<"k">>}

EqLiterals == {<<"v">>, <<"w">>}

EqSegments == {EqV, EqNone, EqVW, <<"*", "|", "-", "1">>}

InitEq == InitWith(Templates(EqKeys, EqLiterals))

NextEq == NextWith(Paths(EqSegments))

SpecEq == InitEq /\ [][NextEq]_vars

---------------------------------------------------------------------------
(* Vocabulary of the properties *)

\* The consumer has received everything up to the close of the channel.
Finished == cpc \in {"returned", "drained"}

\* The node under the document node.
Top(t) == t.content[1]

\* The positions of Top(t)'s children (mapping values, sequence elements) that
\* satisfy Want, in document order.
TopChildren(t, Want(_)) ==
    LET kids   == Children(Top(t))
        picked == SelectSeq([j \in 1..Len(kids) |-> j], Want)
    IN  [i \in 1..Len(picked) |-> <<1, kids[picked[i]]>>]

\* The key of the j-th entry of a mapping.
KeyOf(n, j) == n.content[2 * j - 1].value

\* Top(t)'s entries whose key is spelled key.
TopEntriesKeyed(t, key) ==
    TopChildren(t, LAMBDA j : Top(t).kind = "Mapping" /\ KeyOf(Top(t), j) = key)

\* Every position below at that a traversal can descend to.
RECURSIVE Below(_, _)
Below(t, at) ==
    LET kids == Children(NodeAt(t, at))
    IN  {at} \cup UNION {Below(t, at \o <<kids[j]>>) : j \in 1..Len(kids)}

\* The values of the mapping entries keyed key, at any depth.
ValuesKeyed(t, key) ==
    UNION {{at \o <<2 * j>> : j \in {i \in 1..(Len(NodeAt(t, at).content) \div 2) :
                                        KeyOf(NodeAt(t, at), i) = key}} :
           at \in {a \in Below(t, <<1>>) : NodeAt(t, a).kind = "Mapping"}}

\* Document order of positions: lexicographic, a node before its descendants.
RECURSIVE LexLess(_, _)
LexLess(a, b) ==
    IF a = <<>> THEN b # <<>>
    ELSE IF b = <<>> THEN FALSE
    ELSE IF Head(a) # Head(b) THEN Head(a) < Head(b)
    ELSE LexLess(Tail(a), Tail(b))

\* The first index at which two call chains differ.
FirstDiff(u, v) ==
    CHOOSE d \in 1..(Len(u) + 1) :
        /\ d > Len(u) \/ d > Len(v) \/ u[d] # v[d]
        /\ \A e \in 1..(d - 1) : e <= Len(v) /\ u[e] = v[e]

Range(f) == {f[i] : i \in DOMAIN f}

NoDuplicates(f) == \A i, j \in DOMAIN f : f[i] = f[j] => i = j

\* The nodes of a traversal's sends, in order.
Nodes(r) == [i \in 1..Len(r.emits) |-> r.emits[i].node]

---------------------------------------------------------------------------
(* C1 *)

\* C1: when GetPath has returned, it returned a node exactly when MatchPath
\* put exactly one node on the channel, and then that node; it returned nil
\* when the channel carried no node or two or more.
C1_GetPathIffSoleMatch ==
    cpc = "returned" =>
        ret = IF Len(emitted) = 1 THEN <<emitted[1].node>> ELSE <<>>

C1_Witness ==
    /\ cpc = "returned"
    /\ Len(emitted) = 1
    /\ ret = <<emitted[1].node>>

---------------------------------------------------------------------------
(* C2 *)

\* Two sends in the order a, b break the order when, at the call where their
\* chains part, a came from a later loop iteration than b, or a came from
\* descending into a child and b from the zero-width attempt.
OutOfOrder(a, b) ==
    LET d == FirstDiff(a.via, b.via)
    IN  \/ d > Len(a.via)
        \/ d > Len(b.via)
        \/ (a.via[d].site = b.via[d].site /\ a.via[d].i >= b.via[d].i)
        \/ (a.via[d].site = "desc" /\ b.via[d].site = "zero")

HasStarStar(p) == \E i \in 1..Len(ParsePath(p)) : ParsePath(p)[i] = StarStar

\* C2: every send comes after all the sends before it in depth-first document
\* order: matches under an earlier entry or element before those under a later
\* one, the zero-width matches of a "**" at a node before the matches found
\* below that node; and without "**" the nodes themselves come in document order.
C2_DepthFirstDocumentOrder ==
    \A i \in 1..(Len(emitted) - 1) :
        /\ ~OutOfOrder(emitted[i], emitted[Len(emitted)])
        /\ ~HasStarStar(path) => LexLess(emitted[i].node, emitted[Len(emitted)].node)

C2_Witness ==
    \E i, j \in 1..Len(emitted) :
        /\ i < j
        /\ emitted[i].via[FirstDiff(emitted[i].via, emitted[j].via)].site = "zero"
        /\ emitted[j].via[FirstDiff(emitted[i].via, emitted[j].via)].site = "desc"

---------------------------------------------------------------------------
(* C3 *)

\* C3: matching never raises: a segment or filter key that is no index of the
\* sequence at hand prunes the branch and the traversal goes on.
C3_NeverRaises == ppc # "panic"

---------------------------------------------------------------------------
(* C4 *)

\* C4: MatchPath("**/k") yields the values of the mapping entries keyed k, at
\* any depth, each exactly once and nothing else.
C4_StarStarKeyExactlyOnce ==
    (Finished /\ path = StarStar \o Slash \o <<"k">>) =>
        /\ Range(results) = ValuesKeyed(tmpl, <<"k">>)
        /\ NoDuplicates(results)

---------------------------------------------------------------------------
(* C5 *)

\* A step of the producer or of GetPath's loop is possible.
CanStep ==
    \/ ppc = "run"
    \/ ppc = "send" /\ cpc = "recv"
    \/ cpc = "recv" /\ closed > 0

\* C5: the producer closes the channel at most once, and after its last send;
\* and whenever GetPath has been called, either it has returned from a channel
\* closed once or the producer or GetPath has a step to take (the traversal
\* sends finitely many nodes, so the steps run out).
C5_GetPathReturns ==
    /\ closed <= 1
    /\ closed = 1 => sent = Len(run.emits)
    /\ caller = "GetPath" =>
        \/ cpc = "returned" /\ closed = 1
        \/ CanStep

---------------------------------------------------------------------------
(* C6 *)

\* The children of Top(t) that a segment selects when it is read as the text
\* before its first "|" (the key or "*") and the text after it (one filter query).
SplitAtFirstBar(t, segment) ==
    LET seg == ParseSegmentFirstBar(segment)
    IN  TopChildren(t, LAMBDA j :
            /\ \/ seg.head = Star
               \/ Top(t).kind = "Mapping" /\ KeyOf(Top(t), j) = seg.head
            /\ filter(Top(t).content[Children(Top(t))[j]], seg.query) = "pass")

\* C6 as claimed: a segment with two "|" acts as the text before the first "|"
\* filtered by all the text after it.
C6_SplitAtFirstBar ==
    (Finished /\ path = TwoBars) => results = SplitAtFirstBar(tmpl, TwoBars)

\* C6 as amended: a segment with two "|" is not split: it matches the mapping
\* entries whose key is the whole segment, with no filter.
C6_TwoBarsIsLiteralKey ==
    (Finished /\ path = TwoBars) => results = TopEntriesKeyed(tmpl, TwoBars)

C6_Witness ==
    /\ Finished
    /\ path = TwoBars
    /\ results # <<>>

---------------------------------------------------------------------------
(* C7 *)

\* The child of n looked up under key, as a set: empty when there is none.
ChildUnder(n, key) ==
    IF n.kind = "Mapping" THEN
        LET hits == {j \in 1..(Len(n.content) \div 2) : KeyOf(n, j) = key}
        IN  IF hits = {} THEN {}
            ELSE {n.content[2 * (CHOOSE j \in hits : \A k \in hits : j <= k)]}
    ELSE IF n.kind = "Sequence" THEN
        {n.content[i + 1] : i \in {a \in 0..(Len(n.content) - 1) :
                                        ~Atoi(key).err /\ Atoi(key).val = a}}
    ELSE {}

\* The children of Top(t) whose child under key is a scalar spelled expected.
ScalarEquals(t, key, expected) ==
    TopChildren(t, LAMBDA j :
        \E c \in ChildUnder(Top(t).content[Children(Top(t))[j]], key) :
            c.kind = "Scalar" /\ c.value = expected)

\* C7: under "*|k==value" a candidate passes exactly when its child under k is
\* a scalar whose literal is value, whatever value is.
C7_NonScalarChildFails ==
    /\ (Finished /\ path = EqV) => results = ScalarEquals(tmpl, <<"k">>, <<"v">>)
    /\ (Finished /\ path = EqNone) => results = ScalarEquals(tmpl, <<"k">>, <<>>)

---------------------------------------------------------------------------
(* C8 *)

\* C8 as claimed: "k==v==w" accepts the candidates "k==v" accepts.
C8_SameAsFirstEquality ==
    (Finished /\ path = EqVW) => results = Nodes(Traverse(tmpl, EqV))

\* C8 as amended: "k==v==w" accepts the candidates that have a child under k,
\* whatever its literal: the candidates the query "k" accepts.
C8_SameAsExistence ==
    (ppc \in {"done", "panic"} /\ path = EqVW) =>
        /\ Nodes([emits |-> emitted]) = Nodes(Traverse(tmpl, <<"*", "|", "k">>))
        /\ (ppc = "panic") = Traverse(tmpl, <<"*", "|", "k">>).panic

C8_Witness ==
    /\ ppc = "done"
    /\ path = EqVW
    /\ \E i \in 1..Len(emitted) :
        \E c \in ChildUnder(NodeAt(tmpl, emitted[i].node), <<"k">>) : c.value # <<"v">>

---------------------------------------------------------------------------
(* C9 *)

\* C9: the producer has completed exactly as many sends as the consumer has
\* completed receives; and once a consumer has stopped with fewer nodes than
\* the traversal sends, the producer is at or on its way to a send and the
\* channel is not closed.
C9_BlockedProducerNeverCloses ==
    /\ sent = Len(results)
    /\ (cpc = "stopped" /\ Len(results) < Len(run.emits)) =>
            (closed = 0 /\ ppc \in {"run", "send"})

C9_Witness ==
    /\ cpc = "stopped"
    /\ ppc = "send"
    /\ Len(results) >= 1
    /\ Len(results) < Len(run.emits)

---------------------------------------------------------------------------
(* C10 *)

\* C10: the empty path is one empty segment; MatchPath("") yields the values of
\* the top mapping's entries keyed by the empty string, in document order, and
\* so never the top node itself and nothing for a sequence or a scalar.
C10_EmptyPathIsEmptyKey ==
    (Finished /\ path = <<>>) =>
        /\ ParsePath(path) = << <<>> >>
        /\ results = TopEntriesKeyed(tmpl, <<>>)
        /\ \A i \in 1..Len(results) : results[i] # <<1>>

C10_Witness ==
    /\ Finished
    /\ path = <<>>
    /\ Len(results) >= 1

====
